---- MODULE Spec2Model ----
(***************************************************************************)
(* FlipMouse (src/main.c): a daemon that grabs keypad/keyboard input       *)
(* devices, and, while "mouse mode" is enabled, translates key events into *)
(* pointer motion, clicks and wheel events written to a virtual mouse.     *)
(*                                                                         *)
(* The model follows main(): device discovery, creation of the virtual     *)
(* mouse, the select() loop that reads one event per ready device, the     *)
(* translator (handle_input_event / mouse_handle_event), the routing of    *)
(* the result to a uinput sink, signals, and shutdown.                     *)
(***************************************************************************)
EXTENDS Integers, Sequences, FiniteSets, TLC

(***************************************************************************)
(* Linux input-event codes used by the program (linux/input-event-codes.h) *)
(***************************************************************************)
EV_SYN == 0
EV_KEY == 1
EV_REL == 2
EV_ABS == 3
EV_MSC == 4
SYN_REPORT == 0
MSC_RAW == 3
MSC_SCAN == 4
REL_X == 0
REL_Y == 1
REL_WHEEL == 8
BTN_LEFT == 272
ABS_TOOL_WIDTH == 28
KEY_ENTER == 28
KEY_A == 30
KEY_B == 48
KEY_F12 == 88
KEY_UP == 103
KEY_LEFT == 105
KEY_RIGHT == 106
KEY_DOWN == 108
KEY_VOLUMEDOWN == 114
KEY_VOLUMEUP == 115
KEY_HELP == 138
KEY_MENU == 139
KEY_SEND == 231

(* Program constants, main.c lines 31-33 *)
MIN_MOUSE_SPEED == 1
WHEEL_SLOWDOWN_FACTOR == 5
KEY_CLAMSHELL == 252

(* event_action_t, main.c lines 36-42 *)
CHANGED_TO_MOUSE == -2
MUTE_EVENT == 0
PASS_THRU_EVENT == 1
CHANGED_EVENT == 2

(* unsigned int slowdown_counter (32 bits), held as two 16-bit halves       *)
(* [hi, lo] with value hi * 65536 + lo, so that every intermediate value   *)
(* stays below 2^31                                                        *)
HALF == 65536
UInt(hi, lo) == [hi |-> hi, lo |-> lo]

\* c + 1 modulo 2^32
UIntInc(c) ==
  IF c.lo + 1 < HALF THEN UInt(c.hi, c.lo + 1)
  ELSE UInt((c.hi + 1) % HALF, 0)

\* c % n for a small positive n
UIntMod(c, n) == ((c.hi % n) * (HALF % n) + (c.lo % n)) % n

(***************************************************************************)
(* Bounds of the model                                                     *)
(***************************************************************************)
\* directory entries examined by one discovery
MaxCand == 2
\* a volume-up press is delivered only while it leaves speed at or below the
\* cap: MaxSpeed in the speed runs, MaxSpeedT in the other runs
MaxSpeed == 7
MaxSpeedT == 5
\* scroll-class events delivered: MaxScroll in the scroll runs, MaxScrollT in
\* the other runs (0: the scroll keys are exercised by the scroll runs only)
MaxScroll == 5
MaxScrollT == 0

(***************************************************************************)
(* Keymaps, main.c lines 91-107                                            *)
(***************************************************************************)
KM(s, k) == [scancode |-> s, keycode |-> k]

keypad_keymap ==
  << KM(35, KEY_UP), KM(9, KEY_DOWN), KM(19, KEY_LEFT), KM(34, KEY_RIGHT),
     KM(33, KEY_MENU), KM(2, KEY_SEND) >>

laptop_keymap ==
  << KM(200, KEY_UP), KM(208, KEY_DOWN), KM(203, KEY_LEFT), KM(205, KEY_RIGHT),
     KM(17, KEY_MENU), KM(31, KEY_SEND) >>

\* app_state.keymap / keymap_size: the table the global pointer designates
\* ("none": the zero-initialised pointer with keymap_size 0)
KeymapTable(k) ==
  CASE k = "keypad" -> keypad_keymap
    [] k = "laptop" -> laptop_keymap
    [] OTHER -> << >>

MinOf(S) == CHOOSE x \in S : \A y \in S : x <= y

\* first entry whose keycode matches, else -1
keymap_get_scanvalue(km, keycode) ==
  LET hits == { i \in 1..Len(km) : km[i].keycode = keycode }
  IN IF hits = {} THEN -1 ELSE km[MinOf(hits)].scancode

\* first entry whose scancode matches, else -1
keymap_get_keycode(km, scanvalue) ==
  LET hits == { i \in 1..Len(km) : km[i].scancode = scanvalue }
  IN IF hits = {} THEN -1 ELSE km[MinOf(hits)].keycode

(* supported_devices[], main.c lines 83-88 *)
AT_KEYBOARD == "AT Translated Set 2 keyboard"
supported_devices == << "mtk-kpd", "matrix-keypad", "gpio_keys", AT_KEYBOARD >>

\* the keymap the attach code selects for a device name, main.c lines 538-550
KeymapForName(name) ==
  IF name \in {"mtk-kpd", "matrix-keypad", "gpio_keys"} THEN "keypad"
  ELSE IF name = AT_KEYBOARD THEN "laptop"
  ELSE "keypad"

(***************************************************************************)
(* Events and sink records                                                 *)
(***************************************************************************)
Ev(t, c, v) == [type |-> t, code |-> c, value |-> v]
NoEvent == Ev(-1, -1, -1)

\* a record written with libevdev_uinput_write_event; sink 0 is the virtual
\* mouse, sink d > 0 is the uinput clone of the d-th registered device
MOUSE_SINK == 0
Wr(sink, e) == [sink |-> sink, type |-> e.type, code |-> e.code, value |-> e.value]
SynReport == Ev(EV_SYN, SYN_REPORT, 0)

\* the translator's view of mouse_t plus the static slowdown_counter
Mode(en, sp, dr, sc) ==
  [enabled |-> en, speed |-> sp, drag_mode |-> dr, slowdown_counter |-> sc]

\* result of handling one event: return code, the (possibly rewritten) event,
\* the new mode state and what the handler itself wrote to the device sink
Ret(res, e, m, inj) == [res |-> res, ev |-> e, m |-> m, inj |-> inj]

(***************************************************************************)
(* The translator                                                          *)
(***************************************************************************)
\* variant: the toggle switches mouse mode on and never off
mouse_toggle_OnOnly(m) == [m EXCEPT !.enabled = 1]

\* mouse_toggle, main.c lines 301-306: enabled = !enabled
mouse_toggle(m) == [m EXCEPT !.enabled = IF @ = 0 THEN 1 ELSE 0]

\* the keycode the switch dispatches on, main.c lines 312-329: the code of
\* the event, replaced by the keymap's answer (possibly -1) for a scan event
DispatchKeycode(e, km) ==
  IF e.type = EV_MSC /\ e.code = MSC_SCAN
  THEN keymap_get_keycode(km, e.value)
  ELSE e.code

\* variant: the throttle test reads the counter after the increment
WheelMutedAfterIncrement(m) ==
  UIntMod(UIntInc(m.slowdown_counter), WHEEL_SLOWDOWN_FACTOR) # 0

\* slowdown_counter++ % WHEEL_SLOWDOWN_FACTOR: the test reads the value held
\* BEFORE the increment, main.c lines 406 and 415
WheelMuted(m) == UIntMod(m.slowdown_counter, WHEEL_SLOWDOWN_FACTOR) # 0

CounterNext(m) == [m EXCEPT !.slowdown_counter = UIntInc(@)]

\* variant: the wheel direction is inverted
ScrollCaseReversed(e, m, delta) ==
  IF UIntMod(m.slowdown_counter, WHEEL_SLOWDOWN_FACTOR) # 0
  THEN Ret(MUTE_EVENT, e, [m EXCEPT !.slowdown_counter = UIntInc(@)], << >>)
  ELSE Ret(CHANGED_TO_MOUSE, Ev(EV_REL, REL_WHEEL, -delta),
           [m EXCEPT !.slowdown_counter = UIntInc(@)], << >>)

\* case KEY_MENU / KEY_SEND, main.c lines 405-421
ScrollCase(e, m, delta) ==
  IF WheelMuted(m)
  THEN Ret(MUTE_EVENT, e, CounterNext(m), << >>)
  ELSE Ret(CHANGED_TO_MOUSE, Ev(EV_REL, REL_WHEEL, delta), CounterNext(m), << >>)

\* variant: every value of the key raises the speed
VolumeUpAnyValue(e, m) == Ret(MUTE_EVENT, e, [m EXCEPT !.speed = @ + 1], << >>)

\* case KEY_VOLUMEUP, main.c lines 343-349
VolumeUpCase(e, m) ==
  Ret(MUTE_EVENT, e, IF e.value = 1 THEN [m EXCEPT !.speed = @ + 1] ELSE m, << >>)

\* variant: the decrement without the floor
VolumeDownNoFloor(e, m) ==
  Ret(MUTE_EVENT, e, IF e.value = 1 THEN [m EXCEPT !.speed = @ - 1] ELSE m, << >>)

\* case KEY_VOLUMEDOWN, main.c lines 351-359
VolumeDownCase(e, m) ==
  LET dec == m.speed - 1
      clamped == IF dec < MIN_MOUSE_SPEED THEN MIN_MOUSE_SPEED ELSE dec
  IN Ret(MUTE_EVENT, e, IF e.value = 1 THEN [m EXCEPT !.speed = clamped] ELSE m, << >>)

\* variant: a press switches drag on instead of flipping it
DragCaseHold(e, m) ==
  IF e.value = 1
  THEN Ret(CHANGED_TO_MOUSE, Ev(EV_KEY, BTN_LEFT, 1), [m EXCEPT !.drag_mode = 1], << >>)
  ELSE Ret(PASS_THRU_EVENT, e, m, << >>)

\* case KEY_B, main.c lines 367-379
DragCase(e, m) ==
  IF e.value = 1
  THEN LET nd == IF m.drag_mode = 0 THEN 1 ELSE 0
       IN Ret(CHANGED_TO_MOUSE, Ev(EV_KEY, BTN_LEFT, nd), [m EXCEPT !.drag_mode = nd], << >>)
  ELSE Ret(PASS_THRU_EVENT, e, m, << >>)

\* variant: the motion goes to the other axis
MotionCaseOtherAxis(e, m, axis, sign) ==
  Ret(CHANGED_TO_MOUSE, Ev(EV_REL, IF axis = REL_X THEN REL_Y ELSE REL_X, sign * m.speed), m, << >>)

\* variant: the motion ignores the current speed
MotionCaseInitialSpeed(e, m, axis, sign) ==
  Ret(CHANGED_TO_MOUSE, Ev(EV_REL, axis, sign * 4), m, << >>)

\* case KEY_UP / KEY_DOWN / KEY_LEFT / KEY_RIGHT, main.c lines 381-403
MotionCase(e, m, axis, sign) ==
  Ret(CHANGED_TO_MOUSE, Ev(EV_REL, axis, sign * m.speed), m, << >>)

\* variant: the clamshell key leaves mouse mode as it is
ClamshellCaseKeepMode(dev, e, m) ==
  IF e.value = 1
  THEN Ret(PASS_THRU_EVENT, e, m,
           << Wr(dev, Ev(EV_KEY, KEY_CLAMSHELL, 1)), Wr(dev, SynReport) >>)
  ELSE Ret(PASS_THRU_EVENT, e, m, << >>)

\* case KEY_CLAMSHELL, main.c lines 425-441: on press mouse mode is switched
\* off and the key is injected on the device's own sink (dev->uidev is set
\* for every registered device); the event is then returned as pass-through
ClamshellCase(dev, e, m) ==
  IF e.value = 1
  THEN Ret(PASS_THRU_EVENT, e, [m EXCEPT !.enabled = 0],
           << Wr(dev, Ev(EV_KEY, KEY_CLAMSHELL, 1)), Wr(dev, SynReport) >>)
  ELSE Ret(PASS_THRU_EVENT, e, m, << >>)

\* variant: the echo test looks the key code up as a scancode
EchoMutedByScancode(e, km) == e.type = EV_KEY /\ keymap_get_keycode(km, e.code) # -1

\* whether a key event is dropped as the echo of a scan event, main.c 330-338
EchoMuted(e, km) == e.type = EV_KEY /\ keymap_get_scanvalue(km, e.code) # -1

\* mouse_handle_event, main.c lines 308-448
mouse_handle_event(dev, e, m, km) ==
  LET keycode == DispatchKeycode(e, km)
  IN IF EchoMuted(e, km) THEN Ret(MUTE_EVENT, e, m, << >>)
     ELSE CASE keycode = KEY_VOLUMEUP   -> VolumeUpCase(e, m)
            [] keycode = KEY_VOLUMEDOWN -> VolumeDownCase(e, m)
            [] keycode = KEY_ENTER -> Ret(CHANGED_TO_MOUSE, Ev(EV_KEY, BTN_LEFT, e.value), m, << >>)
            [] keycode = KEY_B     -> DragCase(e, m)
            [] keycode = KEY_UP    -> MotionCase(e, m, REL_Y, -1)
            [] keycode = KEY_DOWN  -> MotionCase(e, m, REL_Y, 1)
            [] keycode = KEY_LEFT  -> MotionCase(e, m, REL_X, -1)
            [] keycode = KEY_RIGHT -> MotionCase(e, m, REL_X, 1)
            [] keycode = KEY_MENU  -> ScrollCase(e, m, 1)
            [] keycode = KEY_SEND  -> ScrollCase(e, m, -1)
            [] keycode = KEY_CLAMSHELL -> ClamshellCase(dev, e, m)
            [] OTHER -> Ret(PASS_THRU_EVENT, e, m, << >>)

\* the toggle-key test, main.c lines 614-616
IsToggleKey(e) == e.type = EV_KEY /\ (e.code = KEY_HELP \/ e.code = KEY_F12)

\* what the toggle branch returns, main.c lines 618-622
ToggleCase(e, m) ==
  IF e.value = 1
  THEN Ret(CHANGED_TO_MOUSE, e, mouse_toggle(m), << >>)
  ELSE Ret(CHANGED_TO_MOUSE, e, m, << >>)

\* variant: the mode test is missing
handle_input_event_NoModeTest(dev, e, m, km) ==
  IF IsToggleKey(e) THEN ToggleCase(e, m)
  ELSE mouse_handle_event(dev, e, m, km)

\* handle_input_event, main.c lines 611-632
handle_input_event(dev, e, m, km) ==
  IF IsToggleKey(e) THEN ToggleCase(e, m)
  ELSE IF m.enabled = 0 THEN Ret(PASS_THRU_EVENT, e, m, << >>)
  ELSE mouse_handle_event(dev, e, m, km)

\* variant: the record for the virtual mouse is not terminated
RouteWritesNoMouseSyn(dev, r) ==
  IF r.res > 0 THEN << Wr(dev, r.ev), Wr(dev, SynReport) >>
  ELSE IF r.res < 0 THEN << Wr(MOUSE_SINK, r.ev) >>
  ELSE << >>

\* variant: the two destinations are exchanged
RouteWritesSwapped(dev, r) ==
  IF r.res > 0 THEN << Wr(MOUSE_SINK, r.ev), Wr(MOUSE_SINK, SynReport) >>
  ELSE IF r.res < 0 THEN << Wr(dev, r.ev), Wr(dev, SynReport) >>
  ELSE << >>

\* the router of run_event_loop, main.c lines 704-724: a positive result is
\* written to the device's own sink, a negative one to the virtual mouse, and
\* each data record is followed by a SYN_REPORT on the same sink
RouteWrites(dev, r) ==
  IF r.res > 0 THEN << Wr(dev, r.ev), Wr(dev, SynReport) >>
  ELSE IF r.res < 0 THEN << Wr(MOUSE_SINK, r.ev), Wr(MOUSE_SINK, SynReport) >>
  ELSE << >>

(***************************************************************************)
(* State                                                                   *)
(***************************************************************************)
VARIABLES
  pc,               \* where main() is: "discover", "mouse_init", "enter_loop",
                    \* "select", "cleanup", "exited", "crashed"
  scanned,          \* directory entries examined so far by readdir
  cand,             \* the directory entry examined last and its resources
  devices,          \* app_state.devices: names of the registered devices, in list order
  keymap,           \* app_state.keymap: "none", "keypad" or "laptop"
  mouseDev,         \* 1 while app_state.mouse.uidev exists
  enabled,          \* app_state.mouse.enabled
  speed,            \* app_state.mouse.speed
  drag_mode,        \* app_state.mouse.drag_mode
  slowdown_counter, \* the static counter of mouse_handle_event
  running,          \* app_state.running
  sigDelivered,     \* a termination signal has been handled since start-up
  exitCode,         \* the status main() returned, -1 while it runs
  rfds,             \* devices select() reported ready and not yet read in this pass
  devsReleased,     \* devices released by devices_cleanup
  lastDev,          \* the device the last event was read from (0: none yet)
  lastEv,           \* that event as read
  lastRes,          \* what handle_input_event returned for it
  pre,              \* the mode state handle_input_event found
  writes,           \* the records written to the sinks while it was handled
  scrollLog,        \* history: key, result and wheel value written (0: none) per scroll-class event
  volScen,          \* history: progress of an "UP, three volume-up presses, UP" sequence
  pairOut,          \* history: non-muted results over a scan event and its key echo (-1: no pair)
  toggleHist,       \* history: parities of the toggle-key presses read (kept in the toggle runs)
  dragScen          \* history: progress of "drag key pressed twice in a row" (0: none)

vars == << pc, scanned, cand, devices, keymap, mouseDev, enabled, speed, drag_mode,
           slowdown_counter, running, sigDelivered, exitCode, rfds, devsReleased,
           lastDev, lastEv, lastRes, pre, writes, scrollLog, volScen, pairOut,
           toggleHist, dragScen >>

discoveryVars == << scanned, cand, devices, keymap >>
mouseVars == << mouseDev, enabled, speed, drag_mode, slowdown_counter >>
lastVars == << lastDev, lastEv, lastRes, pre, writes, scrollLog, volScen, pairOut,
              toggleHist, dragScen >>

ModeState == Mode(enabled, speed, drag_mode, slowdown_counter)

\* resources of a directory entry: how often its libevdev handle was freed and
\* its descriptor closed, and whether the handle was read after being freed
Cand(name, outcome, freed, closed, uaf) ==
  [name |-> name, outcome |-> outcome, freed |-> freed, closed |-> closed, uaf |-> uaf]
NoCand == Cand("", "none", 0, 0, FALSE)

\* progress of the sequence "UP at speed 4, three volume-up presses, UP":
\* form says how the UP arrived ("key": EV_KEY KEY_UP with value 1, "scan":
\* the scan event of the active keymap's UP entry), step counts its events
Scen(form, step) == [form |-> form, step |-> step]
NoScen == Scen("none", 0)

\* parities of the number of toggle-key presses read: start counts from
\* start-up, exit from start-up or the last press of the clamshell key, and
\* was is the value exit had before the last event
Toggles(start, exit, was) == [start |-> start, exit |-> exit, was |-> was]
NoToggles == Toggles(0, 0, 0)

(***************************************************************************)
(* Inputs                                                                  *)
(***************************************************************************)
\* names a character device under /dev/input may report
UNSUPPORTED_NAME == "Power Button"
CandNames == {"mtk-kpd", AT_KEYBOARD, UNSUPPORTED_NAME}

IsSupported(name) == \E i \in 1..Len(supported_devices) : supported_devices[i] = name
SupportedIndex(name) == CHOOSE i \in 1..Len(supported_devices) : supported_devices[i] = name

KeyValues == {0, 1, 2}
KeyCodes == {KEY_HELP, KEY_F12, KEY_VOLUMEUP, KEY_VOLUMEDOWN, KEY_ENTER, KEY_B,
             KEY_UP, KEY_DOWN, KEY_LEFT, KEY_RIGHT, KEY_MENU, KEY_SEND,
             KEY_CLAMSHELL, KEY_A}
KeyEvents == { Ev(EV_KEY, c, v) : c \in KeyCodes, v \in KeyValues }

\* the scancodes of both keymaps
ScanValues == { keypad_keymap[i].scancode : i \in 1..Len(keypad_keymap) }
              \cup { laptop_keymap[i].scancode : i \in 1..Len(laptop_keymap) }
\* scan events of those keys and of one key in neither keymap (Enter, 28)
ScanEvents == { Ev(EV_MSC, MSC_SCAN, s) : s \in ScanValues \cup {KEY_ENTER} }

OtherEvents == { SynReport, Ev(EV_REL, REL_X, 1), Ev(EV_MSC, MSC_RAW, 1),
                 Ev(EV_ABS, ABS_TOOL_WIDTH, 1) }

AllEvents == KeyEvents \cup ScanEvents \cup OtherEvents

\* the events of the whole-program runs
LifeEvents == { Ev(EV_KEY, KEY_HELP, 1), Ev(EV_KEY, KEY_A, 1),
                Ev(EV_MSC, MSC_SCAN, 35), Ev(EV_MSC, MSC_SCAN, 200),
                Ev(EV_KEY, KEY_CLAMSHELL, 1) }

(***************************************************************************)
(* Start-up: main() after log_init and setup_signal_handlers               *)
(***************************************************************************)
Init ==
  /\ pc = "discover"
  /\ scanned = 0
  /\ cand = NoCand
  /\ devices = << >>
  /\ keymap = "none"
  /\ mouseDev = 0
  /\ enabled = 0
  /\ speed = 0
  /\ drag_mode = 0
  /\ slowdown_counter = UInt(0, 0)
  /\ running = 0
  /\ sigDelivered = FALSE
  /\ exitCode = -1
  /\ rfds = {}
  /\ devsReleased = << >>
  /\ lastDev = 0
  /\ lastEv = NoEvent
  /\ lastRes = MUTE_EVENT
  /\ pre = Mode(0, 0, 0, UInt(0, 0))
  /\ writes = << >>
  /\ scrollLog = << >>
  /\ volScen = NoScen
  /\ pairOut = -1
  /\ toggleHist = NoToggles
  /\ dragScen = 0

(***************************************************************************)
(* devices_find_and_init, main.c lines 452-582: one action per directory   *)
(* entry (one iteration of the readdir loop)                               *)
(***************************************************************************)
\* entry skipped before a libevdev handle exists, main.c lines 472-492:
\* not a character device, open() failed, or libevdev_new_from_fd failed
\* (then the descriptor is closed)
SkipCandidate ==
  /\ pc = "discover" /\ scanned < MaxCand
  /\ \E why \in {"not_chr", "open_fail", "evdev_fail"} :
       cand' = Cand("", why, 0, IF why = "evdev_fail" THEN 1 ELSE 0, FALSE)
  /\ scanned' = scanned + 1
  /\ UNCHANGED << pc, devices, keymap, mouseVars, running, sigDelivered, exitCode,
                  rfds, devsReleased, lastVars >>

\* name not in supported_devices: handle freed and descriptor closed once,
\* main.c lines 495-497 and 572-577
UnsupportedCandidate ==
  /\ pc = "discover" /\ scanned < MaxCand
  /\ \E name \in CandNames :
       /\ ~IsSupported(name)
       /\ cand' = Cand(name, "unsupported", 1, 1, FALSE)
  /\ scanned' = scanned + 1
  /\ UNCHANGED << pc, devices, keymap, mouseVars, running, sigDelivered, exitCode,
                  rfds, devsReleased, lastVars >>

\* supported name, device structure allocated and uinput clone created
\* (a refused EVIOCGRAB is only logged): the device is appended to the list
\* and the global keymap is set from its name, main.c lines 499-567
AttachCandidate ==
  /\ pc = "discover" /\ scanned < MaxCand
  /\ \E name \in CandNames :
       /\ IsSupported(name)
       /\ cand' = Cand(name, "attached", 0, 0, FALSE)
       /\ devices' = Append(devices, name)
       /\ keymap' = KeymapForName(name)
  /\ scanned' = scanned + 1
  /\ UNCHANGED << pc, mouseVars, running, sigDelivered, exitCode,
                  rfds, devsReleased, lastVars >>

\* supported name, but malloc (lines 503-509) or uinput creation (lines
\* 524-533) failed.  The error path frees the handle, closes the descriptor
\* and executes `continue', which continues the inner loop over
\* supported_devices: every later iteration calls libevdev_get_name on the
\* freed handle, and since found stays 0, lines 572-577 free the handle and
\* close the descriptor a second time.  Both are undefined behaviour: the
\* process either survives (the stale name matches no later entry) or is
\* aborted by the allocator.
FailedAttachResources(name, why) ==
  Cand(name, why, 2, 2, SupportedIndex(name) < Len(supported_devices))

AttachFail ==
  /\ pc = "discover" /\ scanned < MaxCand
  /\ \E name \in CandNames, why \in {"malloc_fail", "sink_fail"} :
       /\ IsSupported(name)
       /\ cand' = FailedAttachResources(name, why)
  /\ \E ub \in {"survive", "abort"} :
       pc' = IF ub = "abort" THEN "crashed" ELSE pc
  /\ scanned' = scanned + 1
  /\ UNCHANGED << devices, keymap, mouseVars, running, sigDelivered, exitCode,
                  rfds, devsReleased, lastVars >>

\* the result of devices_find_and_init: 0 once a device was attached
DiscoveryResult == IF devices = << >> THEN -1 ELSE 0

\* readdir returns NULL: closedir, return result; main exits with 1 when the
\* result is not 0, main.c lines 580-581 and 743-748
EndDiscovery ==
  /\ pc = "discover"
  /\ IF DiscoveryResult # 0
     THEN pc' = "exited" /\ exitCode' = 1
     ELSE pc' = "mouse_init" /\ exitCode' = exitCode
  /\ scanned' = 0
  /\ cand' = NoCand
  /\ UNCHANGED << devices, keymap, mouseVars, running, sigDelivered,
                  rfds, devsReleased, lastVars >>

\* opendir failed, main.c lines 458-464 and 743-748
OpendirFail ==
  /\ pc = "discover" /\ scanned = 0
  /\ pc' = "exited" /\ exitCode' = 1
  /\ UNCHANGED << discoveryVars, mouseVars, running, sigDelivered,
                  rfds, devsReleased, lastVars >>

(***************************************************************************)
(* main after discovery                                                    *)
(***************************************************************************)
\* devices_cleanup, main.c lines 584-607: every listed device is released
\* and the list is emptied
ReleaseDevices ==
  /\ devsReleased' = devsReleased \o devices
  /\ devices' = << >>

\* mouse_init, main.c lines 244-282, and its caller, main.c lines 751-757
MouseInit ==
  /\ pc = "mouse_init"
  /\ \E ok \in BOOLEAN :
       IF ok
       THEN /\ mouseDev' = 1 /\ enabled' = 0 /\ speed' = 4 /\ drag_mode' = 0
            /\ pc' = "enter_loop"
            /\ UNCHANGED << devices, devsReleased, exitCode >>
       ELSE /\ ReleaseDevices
            /\ pc' = "exited" /\ exitCode' = 1
            /\ UNCHANGED << mouseDev, enabled, speed, drag_mode >>
  /\ UNCHANGED << scanned, cand, keymap, slowdown_counter, running, sigDelivered,
                  rfds, lastVars >>

\* run_event_loop up to the first select, main.c lines 661-675
EnterLoop ==
  /\ pc = "enter_loop"
  /\ running' = 1
  /\ pc' = "select" /\ rfds' = {}
  /\ UNCHANGED << discoveryVars, mouseVars, sigDelivered, exitCode, devsReleased, lastVars >>

\* signal_handler, main.c lines 636-640, run at any point other than inside
\* a blocked select (for pc = "select" with rfds = {}: between the loop test
\* and the call of select, so that select still blocks)
Signal ==
  /\ pc \notin {"exited", "crashed"}
  /\ running' = 0
  /\ sigDelivered' = TRUE
  /\ UNCHANGED << pc, discoveryVars, mouseVars, exitCode, rfds, devsReleased, lastVars >>

\* signal_handler run while select blocks: select fails with EINTR, the loop
\* continues and its test finds running = 0, main.c lines 672-678
SignalInSelect ==
  /\ pc = "select" /\ rfds = {}
  /\ running' = 0
  /\ sigDelivered' = TRUE
  /\ pc' = "cleanup"
  /\ UNCHANGED << discoveryVars, mouseVars, exitCode, rfds, devsReleased, lastVars >>

\* select fails with another error: break, main.c lines 680-682
SelectError ==
  /\ pc = "select" /\ rfds = {}
  /\ pc' = "cleanup"
  /\ UNCHANGED << discoveryVars, mouseVars, running, sigDelivered, exitCode, rfds,
                  devsReleased, lastVars >>

\* the ready sets of the pass in progress: what select reports when the loop
\* is blocked in it, else what is left of the set it reported
ReadySets == IF rfds = {} THEN (SUBSET (1..Len(devices))) \ {{}} ELSE {rfds}

\* the for loop moves to the next ready device; after the last one the loop
\* test is evaluated, main.c lines 672 and 685-688
PassAdvance(R, d) ==
  /\ rfds' = R \ {d}
  /\ pc' = IF R \ {d} = {} /\ running = 0 THEN "cleanup" ELSE "select"

\* whether the event reaches case KEY_MENU / KEY_SEND of the translator
IsScrollClass(e, m, km) ==
  /\ m.enabled = 1 /\ ~IsToggleKey(e) /\ ~EchoMuted(e, km)
  /\ DispatchKeycode(e, km) \in {KEY_MENU, KEY_SEND}

\* the wheel value among the records written (0: none)
WheelOut(ws) ==
  IF \E i \in 1..Len(ws) : ws[i].type = EV_REL /\ ws[i].code = REL_WHEEL
  THEN ws[CHOOSE i \in 1..Len(ws) : ws[i].type = EV_REL /\ ws[i].code = REL_WHEEL].value
  ELSE 0

IsUpForm(e, km, form) ==
  \/ form = "key" /\ e = Ev(EV_KEY, KEY_UP, 1)
  \/ form = "scan" /\ e.type = EV_MSC /\ e.code = MSC_SCAN
       /\ keymap_get_keycode(km, e.value) = KEY_UP

\* the history variables after event e, read in mode m, produced writes ws
ScrollLogNext(e, m, km, res, ws) ==
  IF IsScrollClass(e, m, km)
  THEN Append(scrollLog, [key |-> DispatchKeycode(e, km), res |-> res, out |-> WheelOut(ws)])
  ELSE scrollLog

VolScenNext(e, m, km) ==
  IF m.enabled = 1 /\ volScen.step = 4 /\ IsUpForm(e, km, volScen.form)
    THEN Scen(volScen.form, 5)
  ELSE IF m.enabled = 1 /\ m.speed = 4 /\ IsUpForm(e, km, "key") THEN Scen("key", 1)
  ELSE IF m.enabled = 1 /\ m.speed = 4 /\ IsUpForm(e, km, "scan") THEN Scen("scan", 1)
  ELSE IF m.enabled = 1 /\ volScen.step \in 1..3 /\ e = Ev(EV_KEY, KEY_VOLUMEUP, 1)
    THEN Scen(volScen.form, volScen.step + 1)
  ELSE NoScen

NonMute(res) == IF res # MUTE_EVENT THEN 1 ELSE 0

\* e is a key event echoing the scan event read just before from the same
\* device, both while mouse mode was on
IsEchoOfLast(d, e, m, km) ==
  /\ m.enabled = 1 /\ pre.enabled = 1 /\ lastDev = d
  /\ lastEv.type = EV_MSC /\ lastEv.code = MSC_SCAN
  /\ e.type = EV_KEY
  /\ \E i \in 1..Len(km) : km[i].scancode = lastEv.value /\ km[i].keycode = e.code

PairOutNext(d, e, m, km, res) ==
  IF IsEchoOfLast(d, e, m, km) THEN NonMute(lastRes) + NonMute(res) ELSE -1

IsTogglePress(e) == IsToggleKey(e) /\ e.value = 1
IsClamshellPress(e) == e = Ev(EV_KEY, KEY_CLAMSHELL, 1)

ToggleHistNext(e) ==
  IF IsTogglePress(e)
    THEN Toggles(1 - toggleHist.start, 1 - toggleHist.exit, toggleHist.exit)
  ELSE IF IsClamshellPress(e) THEN Toggles(toggleHist.start, 0, toggleHist.exit)
  ELSE Toggles(toggleHist.start, toggleHist.exit, toggleHist.exit)

\* 1: a press of the drag key read with mouse mode on and drag off; 2: a
\* second press of the drag key read right after it
DragPress == Ev(EV_KEY, KEY_B, 1)

DragScenNext(e, m) ==
  IF e # DragPress THEN 0
  ELSE IF dragScen = 1 THEN 2
  ELSE IF m.enabled = 1 /\ m.drag_mode = 0 THEN 1
  ELSE 0

\* one iteration of the for loop for a ready device: read one event, hand it
\* to handle_input_event and route the result, main.c lines 685-725; track
\* says whether the run keeps the toggle history
ReadEvent(EvSet, speedCap, scrollCap, track) ==
  /\ pc = "select"
  /\ \E R \in ReadySets, e \in EvSet :
       \E d \in {MinOf(R)}, m \in {ModeState}, km \in {KeymapTable(keymap)} :
         \E r \in {handle_input_event(d, e, m, km)} :
           \E ws \in {r.inj \o RouteWrites(d, r)} :
             /\ r.m.speed <= speedCap
             /\ IsScrollClass(e, m, km) => Len(scrollLog) < scrollCap
             /\ enabled' = r.m.enabled
             /\ speed' = r.m.speed
             /\ drag_mode' = r.m.drag_mode
             /\ slowdown_counter' = r.m.slowdown_counter
             /\ lastDev' = d /\ lastEv' = e /\ lastRes' = r.res
             /\ pre' = m
             /\ writes' = ws
             /\ scrollLog' = ScrollLogNext(e, m, km, r.res, ws)
             /\ volScen' = VolScenNext(e, m, km)
             /\ pairOut' = PairOutNext(d, e, m, km, r.res)
             /\ toggleHist' = IF track THEN ToggleHistNext(e) ELSE toggleHist
             /\ dragScen' = DragScenNext(e, m)
             /\ PassAdvance(R, d)
  /\ UNCHANGED << discoveryVars, mouseDev, running, sigDelivered, exitCode, devsReleased >>

\* a short read: the event is logged and skipped, main.c lines 690-694
ReadFail ==
  /\ pc = "select"
  /\ \E R \in ReadySets : PassAdvance(R, MinOf(R))
  /\ UNCHANGED << discoveryVars, mouseVars, running, sigDelivered, exitCode,
                  devsReleased, lastVars >>

\* mouse_cleanup, devices_cleanup and the return of main, main.c lines 284-299,
\* 584-607 and 762-769 (run_event_loop always returns 0)
Shutdown ==
  /\ pc = "cleanup"
  /\ mouseDev' = 0
  /\ ReleaseDevices
  /\ pc' = "exited" /\ exitCode' = 0
  /\ UNCHANGED << scanned, cand, keymap, enabled, speed, drag_mode, slowdown_counter,
                  running, sigDelivered, rfds, lastVars >>

(***************************************************************************)
(* Specifications                                                          *)
(***************************************************************************)
\* the whole program
Next ==
  \/ SkipCandidate \/ UnsupportedCandidate \/ AttachCandidate \/ AttachFail
  \/ EndDiscovery \/ OpendirFail
  \/ MouseInit \/ EnterLoop
  \/ Signal \/ SignalInSelect \/ SelectError
  \/ ReadEvent(LifeEvents, MaxSpeedT, MaxScrollT, FALSE) \/ ReadFail
  \/ Shutdown

Spec == Init /\ [][Next]_vars

\* device lists discovery can leave behind, for the runs that start in the
\* event loop: one device, or two devices with different keymaps
Registries == { << "mtk-kpd" >>, << "mtk-kpd", AT_KEYBOARD >> }

\* the state in which run_event_loop first blocks in select
InitLoop ==
  /\ pc = "select"
  /\ scanned = 0
  /\ cand = NoCand
  /\ devices \in Registries
  /\ keymap = KeymapForName(devices[Len(devices)])
  /\ mouseDev = 1
  /\ enabled = 0
  /\ speed = 4
  /\ drag_mode = 0
  /\ slowdown_counter = UInt(0, 0)
  /\ running = 1
  /\ sigDelivered = FALSE
  /\ exitCode = -1
  /\ rfds = {}
  /\ devsReleased = << >>
  /\ lastDev = 0
  /\ lastEv = NoEvent
  /\ lastRes = MUTE_EVENT
  /\ pre = Mode(0, 0, 0, UInt(0, 0))
  /\ writes = << >>
  /\ scrollLog = << >>
  /\ volScen = NoScen
  /\ pairOut = -1
  /\ toggleHist = NoToggles
  /\ dragScen = 0

\* the event loop fed with every event of the model
NextKeys == ReadEvent(AllEvents, MaxSpeedT, MaxScrollT, FALSE)

SpecKeys == InitLoop /\ [][NextKeys]_vars

\* the event loop fed with the toggle key, the volume keys and the UP key in
\* both of its forms
SpeedEvents == { Ev(EV_KEY, KEY_HELP, 1),
                 Ev(EV_KEY, KEY_VOLUMEUP, 1), Ev(EV_KEY, KEY_VOLUMEUP, 0),
                 Ev(EV_KEY, KEY_VOLUMEDOWN, 1), Ev(EV_KEY, KEY_VOLUMEDOWN, 0),
                 Ev(EV_MSC, MSC_SCAN, 35), Ev(EV_MSC, MSC_SCAN, 200),
                 Ev(EV_KEY, KEY_UP, 1), Ev(EV_KEY, KEY_A, 1) }

NextSpeed == ReadEvent(SpeedEvents, MaxSpeed, MaxScrollT, FALSE)

SpecSpeed == InitLoop /\ [][NextSpeed]_vars

\* the event loop fed with the toggle key and, for every entry of both
\* keymaps, the scan event and the key event of a press
PressEvents == { Ev(EV_KEY, KEY_HELP, 1) }
               \cup { Ev(EV_MSC, MSC_SCAN, s) : s \in ScanValues }
               \cup { Ev(EV_KEY, keypad_keymap[i].keycode, 1) : i \in 1..Len(keypad_keymap) }

NextScroll == ReadEvent(PressEvents, MaxSpeedT, MaxScroll, FALSE)

SpecScroll == InitLoop /\ [][NextScroll]_vars

\* the event loop fed with the toggle keys, the clamshell key and some other
\* keys, keeping the toggle history
ToggleEvents == { Ev(EV_KEY, KEY_HELP, 1), Ev(EV_KEY, KEY_HELP, 0), Ev(EV_KEY, KEY_HELP, 2),
                  Ev(EV_KEY, KEY_F12, 1), Ev(EV_KEY, KEY_F12, 0),
                  Ev(EV_KEY, KEY_CLAMSHELL, 1), Ev(EV_KEY, KEY_CLAMSHELL, 0),
                  Ev(EV_KEY, KEY_ENTER, 1), Ev(EV_KEY, KEY_A, 1), Ev(EV_KEY, KEY_B, 1),
                  Ev(EV_MSC, MSC_SCAN, 35), Ev(EV_KEY, KEY_VOLUMEUP, 1) }

NextToggle == ReadEvent(ToggleEvents, MaxSpeedT, MaxScrollT, TRUE)

SpecToggle == InitLoop /\ [][NextToggle]_vars

\* the event loop late in a long run: mouse mode is on and the unsigned
\* slowdown_counter, incremented once per scroll-class event since start-up,
\* stands at 2^32 - 3; scrollLog holds the scroll-class events read from then on
InitWrap ==
  /\ pc = "select"
  /\ scanned = 0
  /\ cand = NoCand
  /\ devices \in Registries
  /\ keymap = KeymapForName(devices[Len(devices)])
  /\ mouseDev = 1
  /\ enabled = 1
  /\ speed = 4
  /\ drag_mode = 0
  /\ slowdown_counter = UInt(HALF - 1, HALF - 3)
  /\ running = 1
  /\ sigDelivered = FALSE
  /\ exitCode = -1
  /\ rfds = {}
  /\ devsReleased = << >>
  /\ lastDev = 0
  /\ lastEv = NoEvent
  /\ lastRes = MUTE_EVENT
  /\ pre = Mode(0, 0, 0, UInt(0, 0))
  /\ writes = << >>
  /\ scrollLog = << >>
  /\ volScen = NoScen
  /\ pairOut = -1
  /\ toggleHist = NoToggles
  /\ dragScen = 0

NextWrap == ReadEvent(PressEvents, MaxSpeedT, MaxScroll, FALSE)

SpecWrap == InitWrap /\ [][NextWrap]_vars

(***************************************************************************)
(* Properties                                                              *)
(***************************************************************************)
Handled == lastDev # 0
MouseRecord(e) == << Wr(MOUSE_SINK, e), Wr(MOUSE_SINK, SynReport) >>
OwnRecord(e) == << Wr(lastDev, e), Wr(lastDev, SynReport) >>

\* C1: the toggle key (KEY_HELP or KEY_F12 as a key event) flips `enabled'
\* on press only; a release or autorepeat of it leaves `enabled' unchanged
\* and is muted: nothing is written to any sink.
C1_ToggleReleaseMuted ==
  (Handled /\ IsToggleKey(lastEv)) =>
     /\ lastEv.value = 1 => enabled # pre.enabled
     /\ lastEv.value # 1 => (enabled = pre.enabled /\ writes = << >>)

\* C2 as stated: with mouse mode on and speed 4, an UP key event (EV_KEY
\* KEY_UP, value 1) is routed to the mouse as REL_Y -4; three following
\* volume-up presses are muted and leave speed 7; a following UP key event
\* is routed to the mouse as REL_Y -7.
C2_KeyUpSpeedScenario ==
  volScen.form = "key" =>
     /\ volScen.step = 1 => (lastRes < 0 /\ writes = MouseRecord(Ev(EV_REL, REL_Y, -4)))
     /\ volScen.step \in 2..4 =>
          (lastRes = MUTE_EVENT /\ writes = << >> /\ speed = 4 + (volScen.step - 1))
     /\ volScen.step = 5 =>
          (speed = 7 /\ lastRes < 0 /\ writes = MouseRecord(Ev(EV_REL, REL_Y, -7)))

\* C2 amended: with mouse mode on and speed 4, the scan event of the active
\* keymap's UP key is routed to the mouse as REL_Y -4; three following
\* volume-up presses are muted and leave speed 7; a following UP scan event
\* is routed to the mouse as REL_Y -7.  The UP key event itself (EV_KEY
\* KEY_UP) is muted.
C2_ScanUpSpeedScenario ==
  /\ volScen.form = "scan" =>
       /\ volScen.step = 1 => (lastRes < 0 /\ writes = MouseRecord(Ev(EV_REL, REL_Y, -4)))
       /\ volScen.step \in 2..4 =>
            (lastRes = MUTE_EVENT /\ writes = << >> /\ speed = 4 + (volScen.step - 1))
       /\ volScen.step = 5 =>
            (speed = 7 /\ lastRes < 0 /\ writes = MouseRecord(Ev(EV_REL, REL_Y, -7)))
  /\ (volScen.form = "key" /\ volScen.step \in {1, 5}) =>
       (lastRes = MUTE_EVENT /\ writes = << >>)

C2_Witness == volScen = Scen("scan", 5)

\* the first five scroll-class events since start-up have the given keys
FiveScrolls(keys) ==
  Len(scrollLog) >= 5 /\ \A i \in 1..5 : scrollLog[i].key = keys[i]
Forwarded(entry) == entry.res < 0 /\ entry.out # 0
Muted(entry) == entry.res = MUTE_EVENT /\ entry.out = 0
AllUp == << KEY_MENU, KEY_MENU, KEY_MENU, KEY_MENU, KEY_MENU >>
UpsThenDowns == << KEY_MENU, KEY_MENU, KEY_MENU, KEY_SEND, KEY_SEND >>

\* C3 as stated: of the first five scroll-up events after start-up exactly one
\* yields a wheel event, it is the fifth (the first four are muted) and its
\* value is +1.
C3_FifthScrollUpForwarded ==
  FiveScrolls(AllUp) =>
     /\ \A i \in 1..4 : Muted(scrollLog[i])
     /\ Forwarded(scrollLog[5]) /\ scrollLog[5].out = 1

\* C3 amended: of the first five scroll-up events after start-up exactly one
\* yields a wheel event, it is the first (the next four are muted) and its
\* value is +1.
C3_FirstScrollUpForwarded ==
  FiveScrolls(AllUp) =>
     /\ Forwarded(scrollLog[1]) /\ scrollLog[1].out = 1
     /\ \A i \in 2..5 : Muted(scrollLog[i])

C3_Witness == FiveScrolls(AllUp)

\* C4 as stated: three scroll-up events followed by two scroll-down events
\* after start-up yield exactly one wheel event, with the direction of the
\* fifth event (scroll-down, -1).
C4_FifthEventDirection ==
  FiveScrolls(UpsThenDowns) =>
     /\ Cardinality({ i \in 1..5 : Forwarded(scrollLog[i]) }) = 1
     /\ Forwarded(scrollLog[5]) /\ scrollLog[5].out = -1

\* C4 amended: scroll-up and scroll-down share one throttle counter: three
\* scroll-up events followed by two scroll-down events after start-up yield
\* exactly one wheel event, produced by the first event of the five and with
\* its direction (scroll-up, +1).
C4_FirstEventDirection ==
  FiveScrolls(UpsThenDowns) =>
     /\ Cardinality({ i \in 1..5 : Forwarded(scrollLog[i]) }) = 1
     /\ Forwarded(scrollLog[1]) /\ scrollLog[1].out = 1

C4_Witness == FiveScrolls(UpsThenDowns)

\* C5 as stated: with mouse mode on, the scan event and the paired key event
\* of one press of any key of the active keymap yield exactly one non-muted
\* action over the two events.
C5_PairExactlyOne == pairOut # -1 => pairOut = 1

\* C5 amended: with mouse mode on, the scan event and the paired key event of
\* one press of a key of the active keymap never yield two non-muted actions:
\* the key event is always muted; the scan event of UP, DOWN, LEFT or RIGHT
\* is never muted (exactly one action), and the scan event of a scroll key is
\* muted unless the throttle forwards it (one action or none).
C5_PairAtMostOne ==
  pairOut # -1 =>
     /\ pairOut \in {0, 1}
     /\ lastRes = MUTE_EVENT
     /\ lastEv.code \in {KEY_UP, KEY_DOWN, KEY_LEFT, KEY_RIGHT} => pairOut = 1
     /\ lastEv.code \in {KEY_MENU, KEY_SEND} =>
          /\ scrollLog # << >>
          /\ pairOut = (IF Forwarded(scrollLog[Len(scrollLog)]) THEN 1 ELSE 0)

C5_Witness == pairOut = 0

\* C6: every event read from a device is classified with the keymap that the
\* device's reported name selects, whatever other devices are attached: the
\* result and the records written are those its own keymap gives.
C6_ClassifiedWithOwnKeymap ==
  (Handled /\ lastDev \in 1..Len(devices)) =>
     \E own \in { handle_input_event(lastDev, lastEv, pre,
                                     KeymapTable(KeymapForName(devices[lastDev]))) } :
        /\ lastRes = own.res
        /\ writes = own.inj \o RouteWrites(lastDev, own)

\* C7: a termination signal delivered at any moment after the handlers are
\* installed is not lost: whenever the loop waits in select after it, the
\* shutdown flag is down, so that the loop ends when the wait returns.
C7_SignalNeverLost ==
  (sigDelivered /\ pc = "select") => running = 0

\* C8: a candidate whose sink creation fails is discarded with its handle
\* freed and its descriptor closed exactly once, never used after release,
\* it is not registered and enumeration goes on.
C8_DiscardedReleasedOnce ==
  cand.outcome = "sink_fail" =>
     /\ cand.freed = 1 /\ cand.closed = 1 /\ ~cand.uaf
     /\ pc = "discover"

\* C9: whatever events arrive, in either mode, speed never drops below
\* MIN_MOUSE_SPEED (1) once the mouse is initialised.
C9_SpeedFloor == speed >= MIN_MOUSE_SPEED

C9_Witness ==
  /\ lastEv = Ev(EV_KEY, KEY_VOLUMEDOWN, 1)
  /\ pre.enabled = 1 /\ pre.speed = MIN_MOUSE_SPEED /\ speed = MIN_MOUSE_SPEED

\* C10: while mouse mode is off, every event other than a toggle-key event is
\* returned as pass-through and written, with type, code and value as read,
\* to the sink of the device it came from, and nowhere else.
C10_DisabledPassThrough ==
  (Handled /\ pre.enabled = 0 /\ ~IsToggleKey(lastEv)) =>
     /\ lastRes = PASS_THRU_EVENT
     /\ writes = OwnRecord(lastEv)

C10_Witness ==
  /\ lastDev = 2 /\ pre.enabled = 0 /\ lastEv = Ev(EV_KEY, KEY_UP, 1)
  /\ writes = << Wr(2, Ev(EV_KEY, KEY_UP, 1)), Wr(2, SynReport) >>

\* C11 as stated: after an even number of toggle-key presses since start-up,
\* whatever other events came in between, mouse mode is off and every event
\* other than a toggle key is passed through unchanged to the sink of its
\* own device.
C11_EvenSinceStart ==
  /\ toggleHist.start = 0 => enabled = 0
  /\ (Handled /\ ~IsToggleKey(lastEv) /\ toggleHist.start = 0) =>
       (lastRes = PASS_THRU_EVENT /\ writes = OwnRecord(lastEv))

\* C11 amended: a press of the clamshell key switches mouse mode off as well,
\* so the presses are counted from start-up or from the last clamshell press:
\* after an even number of toggle-key presses since then, whatever other
\* events came in between, mouse mode is off, and every event other than a
\* toggle key read in that situation is passed through unchanged to the sink
\* of its own device.
C11_EvenSinceModeExit ==
  /\ toggleHist.exit = 0 => enabled = 0
  /\ (Handled /\ ~IsToggleKey(lastEv) /\ toggleHist.was = 0) =>
       (lastRes = PASS_THRU_EVENT /\ writes = OwnRecord(lastEv))

\* a toggle press has just made the count since the last clamshell press
\* even while the count since start-up is odd
C11_Witness ==
  /\ IsTogglePress(lastEv) /\ toggleHist.exit = 0 /\ toggleHist.start = 1
  /\ pre.enabled = 1 /\ enabled = 0

\* C12: with mouse mode on and drag off, two presses (value 1) of the drag
\* key read in a row, with no release in between, are both routed to the
\* mouse as left-button events, the first with value 1 and the second with
\* value 0: the drag flag flips exactly once per press event.
C12_DragPressTwice ==
  /\ dragScen = 1 =>
       /\ lastRes = CHANGED_TO_MOUSE
       /\ writes = MouseRecord(Ev(EV_KEY, BTN_LEFT, 1))
       /\ pre.drag_mode = 0 /\ drag_mode = 1
  /\ dragScen = 2 =>
       /\ lastRes = CHANGED_TO_MOUSE
       /\ writes = MouseRecord(Ev(EV_KEY, BTN_LEFT, 0))
       /\ pre.drag_mode = 1 /\ drag_mode = 0

C12_Witness == dragScen = 2 /\ lastEv = DragPress /\ drag_mode = 0

\* C13: a press (value 1) of the clamshell key (EV_KEY, code 252) leaves
\* mouse mode off, is returned as pass-through, and the raw key event is
\* written to the sink of the device it came from and never to the mouse
\* sink, whether mouse mode was on or off when it arrived.
C13_ClamshellPress ==
  (Handled /\ IsClamshellPress(lastEv)) =>
     /\ enabled = 0
     /\ lastRes = PASS_THRU_EVENT
     /\ \E i \in 1..Len(writes) : writes[i] = Wr(lastDev, lastEv)
     /\ \A i \in 1..Len(writes) : writes[i].sink = lastDev

C13_Witness ==
  /\ IsClamshellPress(lastEv) /\ pre.enabled = 1 /\ enabled = 0
  /\ lastDev = 2 /\ writes[1] = Wr(2, lastEv)

\* a record other than a frame terminator
IsData(w) == ~(w.type = EV_SYN /\ w.code = SYN_REPORT)

\* C14: every data record written to a sink, whether a device's own sink or
\* the mouse sink, is immediately followed by a SYN_REPORT record written to
\* the same sink, with no other write in between.
C14_FrameTerminated ==
  \A i \in 1..Len(writes) :
     IsData(writes[i]) =>
        /\ i < Len(writes)
        /\ writes[i + 1] = Wr(writes[i].sink, SynReport)

C14_Witness ==
  /\ Len(writes) = 4
  /\ IsData(writes[1]) /\ ~IsData(writes[2]) /\ IsData(writes[3]) /\ ~IsData(writes[4])

\* C15: a pass-through result writes only to the sink of the device the event
\* came from, a changed-to-mouse result writes only to the mouse sink, and a
\* mute result writes nothing.
C15_RouterDestination ==
  Handled =>
     /\ lastRes = PASS_THRU_EVENT =>
          (writes # << >> /\ \A i \in 1..Len(writes) : writes[i].sink = lastDev)
     /\ lastRes = CHANGED_TO_MOUSE =>
          (writes # << >> /\ \A i \in 1..Len(writes) : writes[i].sink = MOUSE_SINK)
     /\ lastRes = MUTE_EVENT => writes = << >>
     /\ lastRes \in {PASS_THRU_EVENT, CHANGED_TO_MOUSE, MUTE_EVENT}

C15_Witness ==
  /\ lastDev = 2 /\ lastRes = CHANGED_TO_MOUSE
  /\ writes = MouseRecord(Ev(EV_KEY, BTN_LEFT, 1))

\* every device registered since start-up
Registered == devsReleased \o devices

\* C16: discovery succeeds if and only if at least one device is registered;
\* a process that ends with no device registered has exited with status 1
\* and never created the virtual mouse; when the creation of the virtual
\* mouse fails the process exits with status 1 after releasing every
\* registered device.
C16_StartupOutcome ==
  /\ pc \in {"mouse_init", "enter_loop", "select", "cleanup"} => devices # << >>
  /\ Registered = << >> => mouseDev = 0
  /\ (pc \in {"exited", "crashed"} /\ Registered = << >>) => exitCode = 1
  /\ (pc = "exited" /\ exitCode = 1 /\ Registered # << >>) =>
       (mouseDev = 0 /\ devices = << >>)

\* C17: with mouse mode on, a scan event whose value the active keymap
\* resolves to UP, DOWN, LEFT or RIGHT is routed to the mouse sink as a
\* relative motion: UP is REL_Y -speed, DOWN is REL_Y +speed, LEFT is REL_X
\* -speed and RIGHT is REL_X +speed, speed being the speed when the event is
\* read.
C17_ScanMotion ==
  (Handled /\ pre.enabled = 1 /\ lastEv.type = EV_MSC /\ lastEv.code = MSC_SCAN) =>
     \E k \in {keymap_get_keycode(KeymapTable(keymap), lastEv.value)} :
        /\ k \in {KEY_UP, KEY_DOWN, KEY_LEFT, KEY_RIGHT} => lastRes = CHANGED_TO_MOUSE
        /\ k = KEY_UP    => writes = MouseRecord(Ev(EV_REL, REL_Y, 0 - pre.speed))
        /\ k = KEY_DOWN  => writes = MouseRecord(Ev(EV_REL, REL_Y, pre.speed))
        /\ k = KEY_LEFT  => writes = MouseRecord(Ev(EV_REL, REL_X, 0 - pre.speed))
        /\ k = KEY_RIGHT => writes = MouseRecord(Ev(EV_REL, REL_X, pre.speed))

C17_Witness ==
  /\ lastDev = 2 /\ pre.enabled = 1 /\ pre.speed = 5
  /\ lastEv = Ev(EV_MSC, MSC_SCAN, 203)
  /\ writes = MouseRecord(Ev(EV_REL, REL_X, -5))

IsVolumeKey(e) == e.type = EV_KEY /\ e.code \in {KEY_VOLUMEUP, KEY_VOLUMEDOWN}

\* C18: speed changes only on a press (value 1) of a volume key read with
\* mouse mode on: a volume-up press adds exactly 1, a volume-down press
\* subtracts 1 but not below 1; a release or autorepeat of a volume key and
\* every other event, in either mode, leave speed unchanged; every volume-key
\* event read with mouse mode on is muted.
C18_SpeedFrame ==
  Handled =>
     /\ speed = IF pre.enabled = 1 /\ lastEv = Ev(EV_KEY, KEY_VOLUMEUP, 1)
                  THEN pre.speed + 1
                ELSE IF pre.enabled = 1 /\ lastEv = Ev(EV_KEY, KEY_VOLUMEDOWN, 1)
                  THEN (IF pre.speed - 1 < 1 THEN 1 ELSE pre.speed - 1)
                ELSE pre.speed
     /\ (pre.enabled = 1 /\ IsVolumeKey(lastEv)) =>
          (lastRes = MUTE_EVENT /\ writes = << >>)

C18_Witness ==
  /\ pre.enabled = 1 /\ lastEv = Ev(EV_KEY, KEY_VOLUMEUP, 1)
  /\ pre.speed = 4 /\ speed = 5 /\ writes = << >>

\* C19: for every event read by the event loop at most one data record, with
\* its frame terminator, is written over all sinks: no event is delivered
\* twice.
C19_AtMostOneRecord ==
  Handled => Cardinality({ i \in 1..Len(writes) : IsData(writes[i]) }) <= 1

\* C20: with mouse mode on, an event that is neither a key event nor a scan
\* event (sync, relative, absolute, other misc) is unclassified whatever its
\* code: it is passed through unchanged to the sink of its own device and
\* changes neither speed, drag_mode, enabled nor the scroll counter.
C20_NonKeyUnclassified ==
  (/\ Handled /\ pre.enabled = 1
   /\ lastEv.type # EV_KEY
   /\ ~(lastEv.type = EV_MSC /\ lastEv.code = MSC_SCAN)) =>
     /\ lastRes = PASS_THRU_EVENT
     /\ writes = OwnRecord(lastEv)
     /\ ModeState = pre

\* C21: the one-in-five throttle survives the wraparound of the unsigned
\* scroll counter: in every window of 5 consecutive scroll-class events,
\* windows spanning the wrap to 0 included, exactly one event is forwarded
\* as a wheel event.
C21_ThrottleAcrossWrap ==
  \A i \in 1..(Len(scrollLog) - 4) :
     Cardinality({ j \in i..(i + 4) : Forwarded(scrollLog[j]) }) = 1

====
